---- MODULE Spec2Model ----
(***************************************************************************)
(* Model of the meeting summarizer: the Streamlit "Start Processing"        *)
(* handler of app.py, the three adapters of models.py and the CSV export    *)
(* of export.py.                                                            *)
(*                                                                          *)
(* Python strings are modelled as sequences of one-character strings, so    *)
(* that split, strip, join, lower and the substring test are computed on    *)
(* the characters as Python computes them.                                  *)
(***************************************************************************)
EXTENDS Integers, Sequences, FiniteSets, TLC

VARIABLES
  \* ---- the orchestrator (app.py) ----
  pc,               \* position of the handler: "idle" between runs, else the stage about to run
  run,              \* number of processing runs started so far
  tmp_files,        \* runs whose scratch file (audio_path) still exists on disk
  stt_model,        \* stt.model of the run's STTModel: "None" or "whisper"
  summarizer,       \* summarizer.summarizer of the run's Summarizer: "None" or "pipeline"
  full_transcript,  \* the local full_transcript of the handler
  segments,         \* st.session_state.segments
  summary,          \* st.session_state.summary
  processing_done,  \* st.session_state.processing_done
  \* ---- history of the current run (not program state) ----
  seg_run,          \* the run that last assigned session_state.segments (0: none)
  sum_run,          \* the run that last assigned session_state.summary (0: none)
  done_run,         \* the run that last set processing_done (0: none)
  started,          \* the stages the current run has started, in order
  failed_at,        \* the stage whose exception ended the current run, or "none"
  stt_load,         \* how whisper loaded in the current run's STTModel()
  stt_ret,          \* what stt.transcribe returned in the current run: <<>> or <<string>>
  stt_failed,       \* transcribe returned one of its failure sentinels in the current run
  diar_error,       \* get_segments took its except branch in the current run
  \* ---- direct calls of Summarizer.summarize ----
  s_pc, s_text, s_pipeline, s_call, s_result,
  \* ---- direct calls of export_as_csv ----
  c_pc, c_segments, c_out

vars == <<pc, run, tmp_files, stt_model, summarizer, full_transcript, segments,
          summary, processing_done, seg_run, sum_run, done_run, started,
          failed_at, stt_load, stt_ret, stt_failed, diar_error,
          s_pc, s_text, s_pipeline, s_call, s_result, c_pc, c_segments, c_out>>

orch_vars == <<pc, run, tmp_files, stt_model, summarizer, full_transcript, segments,
               summary, processing_done, seg_run, sum_run, done_run, started,
               failed_at, stt_load, stt_ret, stt_failed, diar_error>>

sum_vars == <<s_pc, s_text, s_pipeline, s_call, s_result>>

csv_vars == <<c_pc, c_segments, c_out>>

(***************************************************************************)
(* Bounds of the model.                                                     *)
(***************************************************************************)
\* processing runs in one session
MaxRuns == 2
\* audio lengths tried: 0, 500, ..., 500 * MaxHalfSeconds milliseconds
MaxHalfSeconds == 3
\* word counts tried on each side of the two thresholds of summarize
Margin == 1
\* the small word counts tried: 0 .. MaxSmall
MaxSmall == 3
\* segments in a record handed to export_as_csv
MaxSegs == 2

(***************************************************************************)
(* Program constants.                                                       *)
(***************************************************************************)
\* models.py:106  if len(words) < 50
ShortTextWords == 50
\* models.py:115  if len(words) > 500 / words[:500]
MaxInputWords == 500
\* models.py:54   duration = len(audio) / 1000
MsPerSecond == 1000

(***************************************************************************)
(* Python str operations.                                                   *)
(***************************************************************************)
\* str.isspace() of one character, for the characters the model uses
IsSpace(c) == c \in {" ", "\n", "\t", "\r"}

\* the elements of a set of integers within lo..hi, ascending
RECURSIVE Ascending(_, _, _)
Ascending(S, lo, hi) ==
  IF lo > hi THEN <<>>
  ELSE IF lo = hi THEN (IF lo \in S THEN <<lo>> ELSE <<>>)
  ELSE LET m == (lo + hi) \div 2
       IN Ascending(S, lo, m) \o Ascending(S, m + 1, hi)

\* text.split(): the maximal runs of non-whitespace characters, in order
Split(t) ==
  LET n == Len(t)
      first == {i \in 1..n : ~IsSpace(t[i]) /\ (i = 1 \/ IsSpace(t[i - 1]))}
      last == {i \in 1..n : ~IsSpace(t[i]) /\ (i = n \/ IsSpace(t[i + 1]))}
      fs == Ascending(first, 1, n)
      ls == Ascending(last, 1, n)
  IN [k \in 1..Len(fs) |-> SubSeq(t, fs[k], ls[k])]

\* text.strip(): leading and trailing whitespace removed
Strip(t) ==
  LET ns == {i \in 1..Len(t) : ~IsSpace(t[i])}
  IN IF ns = {} THEN <<>>
     ELSE SubSeq(t, CHOOSE i \in ns : \A j \in ns : i <= j,
                    CHOOSE i \in ns : \A j \in ns : j <= i)

\* text.split(". "): the pieces between the occurrences of ". ", empty ones kept
SplitDotSpace(t) ==
  LET n == Len(t)
      at == {i \in 1..(n - 1) : t[i] = "." /\ t[i + 1] = " "}
      ps == Ascending(at, 1, n)
      m == Len(ps)
  IN [k \in 1..(m + 1) |->
        SubSeq(t, IF k = 1 THEN 1 ELSE ps[k - 1] + 2,
                  IF k = m + 1 THEN n ELSE ps[k] - 1)]

\* sep.join(parts[lo..hi])
RECURSIVE JoinRange(_, _, _, _)
JoinRange(parts, sep, lo, hi) ==
  IF lo = hi THEN parts[lo]
  ELSE LET m == (lo + hi) \div 2
       IN JoinRange(parts, sep, lo, m) \o sep \o JoinRange(parts, sep, m + 1, hi)

\* sep.join(parts)
Join(parts, sep) ==
  IF parts = <<>> THEN <<>> ELSE JoinRange(parts, sep, 1, Len(parts))

UpperCase == <<"A", "B", "C", "D", "E", "F", "G", "H", "I", "J", "K", "L", "M",
               "N", "O", "P", "Q", "R", "S", "T", "U", "V", "W", "X", "Y", "Z">>

LowerCase == <<"a", "b", "c", "d", "e", "f", "g", "h", "i", "j", "k", "l", "m",
               "n", "o", "p", "q", "r", "s", "t", "u", "v", "w", "x", "y", "z">>

\* text.lower()
Lower(t) ==
  [i \in 1..Len(t) |->
     IF \E k \in 1..26 : UpperCase[k] = t[i]
     THEN LowerCase[CHOOSE k \in 1..26 : UpperCase[k] = t[i]]
     ELSE t[i]]

\* pat in text
Contains(t, pat) ==
  \E i \in 0..(Len(t) - Len(pat)) : \A j \in 1..Len(pat) : t[i + j] = pat[j]

\* pattern * n
RECURSIVE Rep(_, _)
Rep(pattern, n) ==
  IF n = 0 THEN <<>>
  ELSE IF n = 1 THEN pattern
  ELSE Rep(pattern, n \div 2) \o Rep(pattern, n - (n \div 2))

(***************************************************************************)
(* Summarizer (models.py).                                                  *)
(***************************************************************************)
\* models.py:101
NoTextMsg ==
  <<"N", "o", " ", "t", "e", "x", "t", " ", "t", "o", " ", "s", "u", "m", "m",
    "a", "r", "i", "z", "e", ".">>

\* Summarizer._simple_summary
SimpleSummary(text) ==
  LET sentences == SplitDotSpace(text)
  IN IF Len(sentences) <= 2 THEN text
     ELSE Join(SubSeq(sentences, 1, 2), <<".", " ">>) \o <<".">>

\* summarize with its short-text test off by one (len(words) < 49)
SummarizeOffByOne(pipeline, call, text) ==
  IF text = <<>> \/ Len(Strip(text)) = 0 THEN NoTextMsg
  ELSE LET words == Split(text)
       IN IF Len(words) < ShortTextWords - 1 THEN text
          ELSE IF pipeline # "None"
               THEN LET limited == IF Len(words) > MaxInputWords
                                   THEN Join(SubSeq(words, 1, MaxInputWords), <<" ">>)
                                   ELSE text
                    IN IF call.raises THEN SimpleSummary(limited)
                       ELSE call.summary_text
               ELSE SimpleSummary(text)

\* Summarizer.summarize, given self.summarizer and what the pipeline call does:
\* call.raises, or else call.summary_text is summary[0]["summary_text"]
Summarize(pipeline, call, text) ==
  IF text = <<>> \/ Len(Strip(text)) = 0 THEN NoTextMsg
  ELSE LET words == Split(text)
       IN IF Len(words) < ShortTextWords THEN text
          ELSE IF pipeline # "None"
               THEN LET limited == IF Len(words) > MaxInputWords
                                   THEN Join(SubSeq(words, 1, MaxInputWords), <<" ">>)
                                   ELSE text
                    IN IF call.raises THEN SimpleSummary(limited)
                       ELSE call.summary_text
               ELSE SimpleSummary(text)

\* what the bart-large-cnn pipeline call can do: raise, or return a summary
\* (min_length=30 keeps generation going, so the summary text is not empty)
PipelineCalls ==
  { [raises |-> TRUE, summary_text |-> <<>>],
    [raises |-> FALSE, summary_text |-> <<"s", "u", "m">>] }

(***************************************************************************)
(* STTModel (models.py).                                                    *)
(***************************************************************************)
\* models.py:21
NotLoadedMsg ==
  <<"E", "R", "R", "O", "R", ":", " ", "W", "h", "i", "s", "p", "e", "r", " ",
    "m", "o", "d", "e", "l", " ", "n", "o", "t", " ", "l", "o", "a", "d", "e",
    "d", ".", " ", "I", "n", "s", "t", "a", "l", "l", ":", " ", "p", "i", "p",
    " ", "i", "n", "s", "t", "a", "l", "l", " ", "o", "p", "e", "n", "a", "i",
    "-", "w", "h", "i", "s", "p", "e", "r">>

\* models.py:30, the prefix of f"Transcription failed: {str(e)}"
TranscriptionFailedPrefix ==
  <<"T", "r", "a", "n", "s", "c", "r", "i", "p", "t", "i", "o", "n", " ", "f",
    "a", "i", "l", "e", "d", ":", " ">>

\* models.py:26, the default of result.get("text", ...)
NoSpeechMsg ==
  <<"N", "o", " ", "s", "p", "e", "e", "c", "h", " ", "d", "e", "t", "e", "c",
    "t", "e", "d">>

\* what "import whisper; whisper.load_model("base")" can do in STTModel.__init__:
\* succeed, raise ImportError, or raise another exception (a failed download,
\* a corrupt checkpoint, no memory)
STTLoads == {"loaded", "ImportError", "OtherError"}

\* STTModel.__init__: only ImportError is caught
STTInit(load) ==
  [raised |-> load = "OtherError",
   model |-> IF load = "loaded" THEN "whisper" ELSE "None"]

\* texts whisper recognizes
Transcripts ==
  { <<>>,
    <<" ">>,
    <<"h", "i">>,
    <<"w", "e", " ", "F", "a", "i", "l", "e", "d">>,
    <<"a", "n", " ", "E", "R", "R", "O", "R">>,
    <<"n", "o", " ", "e", "r", "r", "o", "r">>,
    Rep(<<"a", ".", " ">>, ShortTextWords),
    Rep(<<"a", " ">>, ShortTextWords) }

\* what self.model.transcribe(audio_path) can do: return a result with a text,
\* return a result without the "text" key, or raise
WhisperCalls ==
  { [kind |-> "text", text |-> t] : t \in Transcripts }
    \cup { [kind |-> "nokey", text |-> <<>>],
           [kind |-> "raises", text |-> <<"o", "o", "m">>] }

\* STTModel.transcribe; for a raising call, call.text is str(e)
STTTranscribe(model, call) ==
  IF model = "None" THEN NotLoadedMsg
  ELSE IF call.kind = "raises" THEN TranscriptionFailedPrefix \o call.text
  ELSE IF call.kind = "nokey" THEN NoSpeechMsg
  ELSE call.text

\* transcribe took one of its two failure returns (models.py:21, models.py:32)
STTTranscribeFailed(model, call) == model = "None" \/ call.kind = "raises"

(***************************************************************************)
(* Diarizer (models.py).                                                    *)
(***************************************************************************)
SpeakerOne == <<"S", "p", "e", "a", "k", "e", "r", " ", "1">>

\* models.py:75, the prefix of f"Diarization error: {str(e)}"
DiarizationErrorPrefix ==
  <<"D", "i", "a", "r", "i", "z", "a", "t", "i", "o", "n", " ", "e", "r", "r",
    "o", "r", ":", " ">>

\* what AudioSegment.from_file(audio_path) can do: decode audio of some length
\* in milliseconds, or raise
AudioDecodes ==
  { [raises |-> FALSE, ms |-> 500 * k] : k \in 0..MaxHalfSeconds }
    \cup { [raises |-> TRUE, ms |-> 0] }

\* the model's name for str(e) of an exception caught in get_segments
ErrText == <<"e", "r", "r">>

\* get_segments with its except branch returning no segment at all
GetSegmentsEmptyOnError(decode, load, call) ==
  IF decode.raises \/ STTInit(load).raised
  THEN [error |-> TRUE, segs |-> <<>>]
  ELSE [error |-> FALSE,
        segs |-> << [speaker |-> SpeakerOne, start |-> 0,
                     end |-> decode.ms \div MsPerSecond,
                     text |-> STTTranscribe(STTInit(load).model, call)] >>]

\* Diarizer.get_segments: decodes the audio, builds a second STTModel and
\* transcribes again; any exception inside gives the zero-length error segment
GetSegments(decode, load, call) ==
  IF decode.raises \/ STTInit(load).raised
  THEN [error |-> TRUE,
        segs |-> << [speaker |-> SpeakerOne, start |-> 0, end |-> 0,
                     text |-> DiarizationErrorPrefix \o ErrText] >>]
  ELSE [error |-> FALSE,
        segs |-> << [speaker |-> SpeakerOne, start |-> 0,
                     end |-> decode.ms \div MsPerSecond,
                     text |-> STTTranscribe(STTInit(load).model, call)] >>]

(***************************************************************************)
(* Initial values.                                                          *)
(***************************************************************************)
\* app.py:40-46, before any run
OrchInit ==
  /\ pc = "idle"
  /\ run = 0
  /\ tmp_files = {}
  /\ stt_model = "None"
  /\ summarizer = "None"
  /\ full_transcript = <<>>
  /\ segments = <<>>
  /\ summary = <<>>
  /\ processing_done = FALSE
  /\ seg_run = 0
  /\ sum_run = 0
  /\ done_run = 0
  /\ started = <<>>
  /\ failed_at = "none"
  /\ stt_load = "none"
  /\ stt_ret = <<>>
  /\ stt_failed = FALSE
  /\ diar_error = FALSE

\* no direct call of summarize under way
SumOff ==
  /\ s_pc = "off"
  /\ s_text = <<>>
  /\ s_pipeline = "None"
  /\ s_call = [raises |-> FALSE, summary_text |-> <<>>]
  /\ s_result = <<>>

\* no direct call of export_as_csv under way
CsvOff ==
  /\ c_pc = "off"
  /\ c_segments = <<>>
  /\ c_out = <<>>

(***************************************************************************)
(* The "Start Processing" handler (app.py:63-125), one action per stage.    *)
(***************************************************************************)
Stages == <<"init", "transcribe", "diarize", "summarize">>

\* app.py:88 with the lower() left out
HasErrorMarkerCaseSensitive(text) ==
  Contains(text, <<"E", "R", "R", "O", "R">>)
    \/ Contains(text, <<"f", "a", "i", "l", "e", "d">>)

\* app.py:88 with the "failed" test left out
HasErrorMarkerOnlyERROR(text) ==
  Contains(text, <<"E", "R", "R", "O", "R">>)

\* app.py:88  "ERROR" in full_transcript or "failed" in full_transcript.lower()
HasErrorMarker(text) ==
  Contains(text, <<"E", "R", "R", "O", "R">>)
    \/ Contains(Lower(text), <<"f", "a", "i", "l", "e", "d">>)

\* the handler's locals do not outlive the script run
LocalsGone ==
  /\ stt_model' = "None"
  /\ summarizer' = "None"
  /\ full_transcript' = <<>>

\* a stage re-raises: except (app.py:118-122) reports, finally (app.py:123-125)
\* removes the scratch file; session state is left as it is
EndRun(stage) ==
  /\ pc' = "idle"
  /\ failed_at' = stage
  /\ tmp_files' = tmp_files \ {run}
  /\ LocalsGone
  /\ UNCHANGED <<run, segments, summary, processing_done, seg_run, sum_run, done_run>>

\* app.py:63-70: the button is pressed; the scratch file is created and the
\* upload written into it, outside the try block
StartProcessing ==
  /\ pc = "idle"
  /\ run < MaxRuns
  /\ run' = run + 1
  /\ tmp_files' = tmp_files \cup {run + 1}
  /\ started' = <<>>
  /\ stt_load' = "none"
  /\ stt_ret' = <<>>
  /\ stt_failed' = FALSE
  /\ diar_error' = FALSE
  /\ \E write_ok \in BOOLEAN :
       IF write_ok
       THEN pc' = "init" /\ failed_at' = "none"
       ELSE pc' = "idle" /\ failed_at' = "upload"
  /\ UNCHANGED <<stt_model, summarizer, full_transcript, segments, summary,
                 processing_done, seg_run, sum_run, done_run>>
  /\ UNCHANGED sum_vars
  /\ UNCHANGED csv_vars

\* app.py:75-83: STTModel(), Diarizer() and Summarizer() are built. Diarizer()
\* and Summarizer() catch every exception; use_pyannote is never read afterwards
Step1InitModels ==
  /\ pc = "init"
  /\ started' = Append(started, "init")
  /\ \E load \in STTLoads, pipeline \in {"None", "pipeline"} :
       /\ stt_load' = load
       /\ IF STTInit(load).raised
          THEN EndRun("init")
          ELSE /\ stt_model' = STTInit(load).model
               /\ summarizer' = pipeline
               /\ pc' = "transcribe"
               /\ UNCHANGED <<run, tmp_files, full_transcript, segments, summary,
                              processing_done, seg_run, sum_run, done_run, failed_at>>
  /\ UNCHANGED <<stt_ret, stt_failed, diar_error>>
  /\ UNCHANGED sum_vars
  /\ UNCHANGED csv_vars

\* app.py:85-94: transcribe, then the test of the returned string
Step2Transcribe ==
  /\ pc = "transcribe"
  /\ started' = Append(started, "transcribe")
  /\ \E call \in WhisperCalls :
       LET ret == STTTranscribe(stt_model, call)
       IN /\ stt_ret' = <<ret>>
          /\ stt_failed' = STTTranscribeFailed(stt_model, call)
          /\ IF HasErrorMarker(ret)
             THEN EndRun("transcribe")
             ELSE /\ full_transcript' = ret
                  /\ pc' = "diarize"
                  /\ UNCHANGED <<run, tmp_files, stt_model, summarizer, segments,
                                 summary, processing_done, seg_run, sum_run,
                                 done_run, failed_at>>
  /\ UNCHANGED <<stt_load, diar_error>>
  /\ UNCHANGED sum_vars
  /\ UNCHANGED csv_vars

\* app.py:96-104: get_segments, its result stored in session state, the text of
\* the first segment overwritten with the transcript
Step3Diarize ==
  /\ pc = "diarize"
  /\ started' = Append(started, "diarize")
  /\ \E decode \in AudioDecodes, load \in STTLoads, call \in WhisperCalls :
       LET got == GetSegments(decode, load, call)
       IN /\ segments' = IF got.segs # <<>>
                         THEN [got.segs EXCEPT ![1].text = full_transcript]
                         ELSE got.segs
          /\ diar_error' = got.error
  /\ seg_run' = run
  /\ pc' = "summarize"
  /\ UNCHANGED <<run, tmp_files, stt_model, summarizer, full_transcript, summary,
                 processing_done, sum_run, done_run, failed_at, stt_load,
                 stt_ret, stt_failed>>
  /\ UNCHANGED sum_vars
  /\ UNCHANGED csv_vars

\* app.py:106-116 and 123-125: summarize, then processing_done. An exception
\* in summarize outside its own try block (models.py:100-108, 126-137: a
\* MemoryError in split, an OSError in print) is re-raised at app.py:110-112
Step4Summarize ==
  /\ pc = "summarize"
  /\ started' = Append(started, "summarize")
  /\ \E call \in PipelineCalls, raises \in BOOLEAN :
       IF raises
       THEN EndRun("summarize")
       ELSE /\ summary' = Summarize(summarizer, call, full_transcript)
            /\ sum_run' = run
            /\ processing_done' = TRUE
            /\ done_run' = run
            /\ pc' = "idle"
            /\ tmp_files' = tmp_files \ {run}
            /\ LocalsGone
            /\ UNCHANGED <<run, segments, seg_run, failed_at>>
  /\ UNCHANGED <<stt_load, stt_ret, stt_failed, diar_error>>
  /\ UNCHANGED sum_vars
  /\ UNCHANGED csv_vars

Init == OrchInit /\ SumOff /\ CsvOff

Next ==
  \/ StartProcessing
  \/ Step1InitModels
  \/ Step2Transcribe
  \/ Step3Diarize
  \/ Step4Summarize

Spec == Init /\ [][Next]_vars

(***************************************************************************)
(* Direct calls of Summarizer.summarize on texts around its thresholds.     *)
(***************************************************************************)
\* the repeated units the input texts are made of
TextUnits ==
  { <<"a", " ">>,                  \* words, no sentence break
    <<"a", ".", " ">>,             \* one-word sentences
    <<"a", "\n", " ">>,            \* words parted by a line break and a space
    <<" ", "\n">> }                \* whitespace only

\* how many units a text holds: small counts and both thresholds with a margin
UnitCounts ==
  (0..MaxSmall)
    \cup ((ShortTextWords - Margin)..(ShortTextWords + Margin))
    \cup ((MaxInputWords - Margin)..(MaxInputWords + Margin))

SumTexts == { Rep(u, n) : u \in TextUnits, n \in UnitCounts }

InitSum ==
  /\ OrchInit
  /\ CsvOff
  /\ s_pc = "ready"
  /\ s_text \in SumTexts
  /\ s_pipeline \in {"None", "pipeline"}
  /\ s_call \in PipelineCalls
  /\ s_result = <<>>

\* result = summarizer.summarize(text)
SumCall ==
  /\ s_pc = "ready"
  /\ s_result' = Summarize(s_pipeline, s_call, s_text)
  /\ s_pc' = "done"
  /\ UNCHANGED <<s_text, s_pipeline, s_call>>
  /\ UNCHANGED orch_vars
  /\ UNCHANGED csv_vars

NextSum == SumCall

SpecSum == InitSum /\ [][NextSum]_vars

\* len(text.split())
WordCount(t) == Len(Split(t))

(***************************************************************************)
(* export_as_csv (export.py): csv.DictWriter with the default dialect:      *)
(* delimiter ",", quotechar '"', doubled quotes, minimal quoting,           *)
(* lineterminator "\r\n".                                                   *)
(***************************************************************************)
Digit == <<"0", "1", "2", "3", "4", "5", "6", "7", "8", "9">>

\* str(n) of a non-negative int
RECURSIVE IntStr(_)
IntStr(n) ==
  IF n < 10 THEN <<Digit[n + 1]>>
  ELSE IntStr(n \div 10) \o <<Digit[(n % 10) + 1]>>

\* the characters that make the writer quote a field
CsvSpecial == {",", "\"", "\r", "\n"}

\* a field written with its quotes not doubled
CsvFieldQuotesNotDoubled(f) ==
  IF \E i \in 1..Len(f) : f[i] \in CsvSpecial
  THEN <<"\"">> \o f \o <<"\"">>
  ELSE f

\* one field as the writer emits it
CsvField(f) ==
  IF \E i \in 1..Len(f) : f[i] \in CsvSpecial
  THEN <<"\"">>
         \o Join([i \in 1..Len(f) |-> IF f[i] = "\"" THEN <<"\"", "\"">> ELSE <<f[i]>>], <<>>)
         \o <<"\"">>
  ELSE f

\* writer.writerow: the fields joined by commas, then the line terminator
CsvRow(fields) ==
  Join([k \in 1..Len(fields) |-> CsvField(fields[k])], <<",">>) \o <<"\r", "\n">>

\* export.py:17  fieldnames=["speaker", "start", "end", "text"]
CsvFieldNames ==
  << <<"s", "p", "e", "a", "k", "e", "r">>, <<"s", "t", "a", "r", "t">>,
     <<"e", "n", "d">>, <<"t", "e", "x", "t">> >>

\* the values of one segment in the order of the field names, as strings
SegmentFields(seg) == <<seg.speaker, IntStr(seg.start), IntStr(seg.end), seg.text>>

\* export_as_csv
ExportAsCsv(segs) ==
  CsvRow(CsvFieldNames)
    \o Join([k \in 1..Len(segs) |-> CsvRow(SegmentFields(segs[k]))], <<>>)

\* segment texts handed to the export: empty, plain, with a comma, with a quote
\* and a comma, with a line break "\n", with a line break "\r\n"
CsvTexts ==
  { <<>>,
    <<"h", "i">>,
    <<"a", ",", "b">>,
    <<"a", "\"", ",", "b">>,
    <<"a", "\n", "b">>,
    <<"a", "\r", "\n", "b">> }

CsvSegments ==
  { [speaker |-> sp, start |-> se[1], end |-> se[2], text |-> t] :
      sp \in {SpeakerOne, <<"A", ",", "B">>},
      se \in {<<0, 0>>, <<3, 12>>},
      t \in CsvTexts }

InitCsv ==
  /\ OrchInit
  /\ SumOff
  /\ c_pc = "ready"
  /\ c_segments \in UNION { [1..n -> CsvSegments] : n \in 0..MaxSegs }
  /\ c_out = <<>>

\* csv_data = export_as_csv(segments)
CsvCall ==
  /\ c_pc = "ready"
  /\ c_out' = ExportAsCsv(c_segments)
  /\ c_pc' = "done"
  /\ UNCHANGED c_segments
  /\ UNCHANGED orch_vars
  /\ UNCHANGED sum_vars

NextCsv == CsvCall

SpecCsv == InitCsv /\ [][NextCsv]_vars

(***************************************************************************)
(* Properties of the handler, checked under Spec.                           *)
(***************************************************************************)
ErrorWord == <<"E", "R", "R", "O", "R">>

FailedWord == <<"f", "a", "i", "l", "e", "d">>

\* the current run has started this stage
Started(stage) == \E k \in 1..Len(started) : started[k] = stage

\* the current run ended with an exception of one of the four stages
RunFailed == pc = "idle" /\ failed_at \in {"init", "transcribe", "diarize", "summarize"}

\* C1: after a run that failed in one of the four stages has ended, neither
\* session_state.segments nor session_state.summary holds anything that run wrote.
C1_FailedRunLeavesNothing ==
  RunFailed => (seg_run # run /\ sum_run # run)

\* C2: whenever processing_done is true, segments and summary were both written
\* by the one run that set processing_done, and nothing has written them since.
C2_VisibleRecordIsOneCompleteRun ==
  processing_done => (seg_run = done_run /\ sum_run = done_run)

\* C3: once a run has ended, in whatever way (the upload could not be written,
\* a stage failed, or all stages succeeded), its scratch file no longer exists.
C3_ScratchFileRemovedOnEveryExit ==
  pc = "idle" => tmp_files = {}

\* the stages started so far are the first stages, in order
StartedInOrder ==
  /\ Len(started) <= Len(Stages)
  /\ \A k \in 1..Len(started) : started[k] = Stages[k]

\* a stage that raised, a whisper load that raised or a transcription that
\* returned a failure sentinel is the last stage of its run, and that run does
\* not set processing_done; only a run that started all four stages sets it
FailureStopsRun ==
  /\ failed_at \in {"init", "transcribe", "diarize", "summarize"}
       => /\ pc = "idle"
          /\ started # <<>>
          /\ started[Len(started)] = failed_at
          /\ done_run # run
  /\ stt_load = "OtherError" => (started = <<"init">> /\ done_run # run)
  /\ stt_failed => (started = <<"init", "transcribe">> /\ done_run # run)
  /\ (run > 0 /\ done_run = run) => (started = Stages /\ failed_at = "none")

\* C4 (as claimed): the stages run in order, a failed stage is the last one of
\* its run and the run is not marked complete; a get_segments that hit an
\* internal exception counts as a failed Diarize stage, so Summarize does not
\* start and processing_done is not set by that run.
C4_FailedStageIncludingDiarizeErrorStopsRun ==
  /\ StartedInOrder
  /\ FailureStopsRun
  /\ diar_error => (~Started("summarize") /\ done_run # run)

\* C4 (amended): the stages run in order, a stage that raises (or a
\* transcription that returns a failure sentinel) is the last one of its run and
\* the run is not marked complete; a get_segments that hit an internal exception
\* does not fail the Diarize stage: its error segment is stored and the run goes
\* on to Summarize.
C4_StagesInOrderFailureStops ==
  /\ StartedInOrder
  /\ FailureStopsRun
  /\ diar_error => /\ failed_at # "diarize"
                   /\ seg_run = run
                   /\ (pc = "summarize" \/ Started("summarize"))

\* a run whose get_segments hit an internal exception went on to Summarize, and
\* the failure of Summarize then ended it without processing_done
C4_Witness ==
  /\ pc = "idle"
  /\ diar_error
  /\ started = Stages
  /\ failed_at = "summarize"
  /\ done_run # run

\* C5: if whisper fails to load when the STTModel is built, the constructor does
\* not raise, transcribe returns a string containing "ERROR", and the run ends
\* before Diarize without writing session_state.segments.
C5_LoadFailureGivesSentinel ==
  (Started("init") /\ stt_load \in {"ImportError", "OtherError"})
    => /\ failed_at # "init"
       /\ stt_ret # <<>> => Contains(stt_ret[1], ErrorWord)
       /\ ~Started("diarize")
       /\ seg_run # run

\* C7: once a run has set processing_done, segments is not empty, every segment
\* has 0 <= start <= end, and summary is not the empty string.
C7_CompleteRecordWellFormed ==
  processing_done
    => /\ segments # <<>>
       /\ \A k \in 1..Len(segments) :
            0 <= segments[k].start /\ segments[k].start <= segments[k].end
       /\ summary # <<>>

\* a run completed with the zero-length error segment of get_segments and a
\* whitespace-only transcript
C7_Witness ==
  /\ pc = "idle"
  /\ processing_done
  /\ done_run = run
  /\ diar_error
  /\ segments[1].end = 0
  /\ segments[1].text = <<" ">>
  /\ summary = NoTextMsg

\* C10: once transcribe has returned, the run goes on to Diarize exactly when
\* the returned string contains neither "ERROR" nor, in any letter case,
\* "failed"; otherwise it ends at the Transcribe stage with nothing written.
\* Every failure sentinel of transcribe contains one of the two markers.
C10_TranscribeExitDependsOnContent ==
  stt_ret # <<>>
    => LET marked == \/ Contains(stt_ret[1], ErrorWord)
                     \/ Contains(Lower(stt_ret[1]), FailedWord)
       IN /\ (pc = "diarize" \/ Started("diarize")) <=> ~marked
          /\ marked => (pc = "idle" /\ failed_at = "transcribe" /\ seg_run # run)
          /\ stt_failed => marked

\* a recognized transcript ("we Failed") that holds a marker ended the run
C10_Witness ==
  /\ stt_ret # <<>>
  /\ ~stt_failed
  /\ Contains(Lower(stt_ret[1]), FailedWord)
  /\ ~Contains(stt_ret[1], ErrorWord)
  /\ pc = "idle"
  /\ failed_at = "transcribe"

(***************************************************************************)
(* Properties of summarize, checked under SpecSum.                          *)
(***************************************************************************)
\* C6 (as claimed): for a text of fewer than 50 words, summarize returns the
\* text unchanged, with or without the pipeline.
C6_ShortTextUnchanged ==
  (s_pc = "done" /\ WordCount(s_text) < ShortTextWords) => s_result = s_text

\* C6 (amended): for a text of at least one and fewer than 50 words, summarize
\* returns the text unchanged, with or without the pipeline; for a text of no
\* words (empty or whitespace only) it returns "No text to summarize.".
C6_ShortNonBlankTextUnchanged ==
  s_pc = "done"
    => /\ (1 <= WordCount(s_text) /\ WordCount(s_text) < ShortTextWords)
            => s_result = s_text
       /\ WordCount(s_text) = 0 => s_result = NoTextMsg

\* a 49-word text went through summarize with a working pipeline and came back
\* unchanged
C6_Witness ==
  /\ s_pc = "done"
  /\ WordCount(s_text) = ShortTextWords - 1
  /\ s_pipeline = "pipeline"
  /\ ~s_call.raises
  /\ s_result = s_text

\* C9: for a text of at least 50 words, when the pipeline is missing or its call
\* raises, summarize returns the extractive fallback of the input text (the text
\* itself if it has two or fewer sentences, else its first two sentences joined
\* by ". " with a final period), the same in both cases, also beyond 500 words.
C9_FallbackOfInputText ==
  (s_pc = "done" /\ WordCount(s_text) >= ShortTextWords
     /\ (s_pipeline = "None" \/ s_call.raises))
    => s_result = SimpleSummary(s_text)

(***************************************************************************)
(* Properties of export_as_csv, checked under SpecCsv. The output is read   *)
(* back the way a CSV reader does: a quote toggles the quoted state, and    *)
(* "\r\n" or "," outside quotes ends a record or a field.                   *)
(***************************************************************************)
\* position i of out lies outside quotes
OutsideQuotes(out, i) ==
  Cardinality({j \in 1..(i - 1) : out[j] = "\""}) % 2 = 0

\* the positions of the "\n" of each "\r\n" that ends a record
RecordEnds(out) ==
  {i \in 2..Len(out) : out[i] = "\n" /\ out[i - 1] = "\r" /\ OutsideQuotes(out, i)}

\* the records of out without their terminators
Records(out) ==
  LET es == Ascending(RecordEnds(out), 1, Len(out))
  IN [k \in 1..Len(es) |->
        SubSeq(out, IF k = 1 THEN 1 ELSE es[k - 1] + 1, es[k] - 2)]

\* a quoted field's content with its doubled quotes undone
RECURSIVE Undouble(_)
Undouble(f) ==
  IF f = <<>> THEN <<>>
  ELSE IF Len(f) >= 2 /\ f[1] = "\"" /\ f[2] = "\""
       THEN <<"\"">> \o Undouble(SubSeq(f, 3, Len(f)))
       ELSE <<f[1]>> \o Undouble(Tail(f))

\* the fields of one record, unquoted
RecordFields(rec) ==
  LET n == Len(rec)
      cs == Ascending({i \in 1..n : rec[i] = "," /\ OutsideQuotes(rec, i)}, 1, n)
      m == Len(cs)
      raw == [k \in 1..(m + 1) |->
                SubSeq(rec, IF k = 1 THEN 1 ELSE cs[k - 1] + 1,
                            IF k = m + 1 THEN n ELSE cs[k] - 1)]
  IN [k \in 1..(m + 1) |->
        IF raw[k] # <<>> /\ raw[k][1] = "\""
        THEN Undouble(SubSeq(raw[k], 2, Len(raw[k]) - 1))
        ELSE raw[k]]

\* the line breaks of a text as str.splitlines() counts them: "\n", "\r\n" and
\* a lone "\r" are one break each
LineBreaks(t) ==
  Cardinality({i \in 1..Len(t) :
                 \/ t[i] = "\n"
                 \/ (t[i] = "\r" /\ (i = Len(t) \/ t[i + 1] # "\n"))})

\* the line breaks inside the fields of segs[1..k]
RECURSIVE FieldLineBreaks(_, _)
FieldLineBreaks(segs, k) ==
  IF k = 0 THEN 0
  ELSE FieldLineBreaks(segs, k - 1)
         + LineBreaks(segs[k].speaker) + LineBreaks(segs[k].text)

\* C8 (as claimed): the output has exactly len(segments)+1 lines, whatever the
\* segment texts hold.
C8_LinesAreSegmentsPlusOne ==
  c_pc = "done" => LineBreaks(c_out) = Len(c_segments) + 1

\* C8 (amended): the output is exactly len(segments)+1 CSV records, each ended
\* by "\r\n": the header speaker,start,end,text, then one record per segment in
\* the record's order that reads back as that segment's four fields. It has
\* len(segments)+1 lines plus one line for every line break inside a field.
C8_RecordsAreSegmentsPlusOne ==
  c_pc = "done"
    => LET recs == Records(c_out)
       IN /\ Len(c_out) \in RecordEnds(c_out)
          /\ Len(recs) = Len(c_segments) + 1
          /\ RecordFields(recs[1]) = CsvFieldNames
          /\ \A k \in 1..Len(c_segments) :
               RecordFields(recs[k + 1]) = SegmentFields(c_segments[k])
          /\ LineBreaks(c_out)
               = Len(c_segments) + 1 + FieldLineBreaks(c_segments, Len(c_segments))

\* two segments were exported, one with a quote and a comma in its text and
\* one with a line break, and the output has more lines than records
C8_Witness ==
  /\ c_pc = "done"
  /\ Len(c_segments) = 2
  /\ c_segments[1].text = <<"a", "\"", ",", "b">>
  /\ c_segments[2].text = <<"a", "\n", "b">>
  /\ Len(Records(c_out)) = 3
  /\ LineBreaks(c_out) = 4

====
